---- MODULE Spec2Model ----
(***************************************************************************)
(* Model of server.py: the Twilio <-> OpenAI Realtime relay of one call    *)
(* (media_stream_endpoint and its two read loops) and the decision-tree    *)
(* conversation (handleUserResponse, askNextQuestion, finalizeClaim).      *)
(*                                                                         *)
(* Python values are modelled as follows.                                  *)
(*   str            a TLA+ string; Chars(t) gives the characters of the    *)
(*                  user texts, which lower() and `in` work on.            *)
(*   None           the string "None" where the other values are strings,  *)
(*                  the empty tuple <<>> where they are integers (an       *)
(*                  Optional[int] is <<>> or <<n>>), NoSubFlow for subFlow.*)
(*   dict (ordered) a sequence of [key, val] records in insertion order.   *)
(*   a built text   the sequence of the pieces concatenated to build it.   *)
(***************************************************************************)
EXTENDS Integers, Sequences, FiniteSets, TLC

VARIABLES
    conversationStates,  \* server.py:99, streamSid -> conversation state
    transcript,          \* lines appended to transcript.txt
    pc,                  \* per call: position of media_stream_endpoint
    producer,            \* per call: status of the handle_twilio_messages task
    consumer,            \* per call: status of the handle_openai_messages task
    streamSid,           \* per call: server.py:273
    latestMediaTimestamp,          \* per call: server.py:276
    lastAssistantItem,             \* per call: server.py:277
    markQueue,                     \* per call: server.py:278
    responseStartTimestampTwilio,  \* per call: server.py:279
    openaiOut,           \* per call: messages sent on openai_ws, in order
    openaiOpen,          \* per call: openai_ws.open
    twilioOut,           \* per call: messages sent on twilio_ws, in order
    twilioRead,          \* per call: number of messages read from twilio_ws
    openaiRead,          \* per call: number of messages read from openai_ws
    lastEvent,           \* per call: the message handled by the last step
    handled              \* per call: number of handleUserResponse calls made

vars == <<conversationStates, transcript, pc, producer, consumer, streamSid,
          latestMediaTimestamp, lastAssistantItem, markQueue,
          responseStartTimestampTwilio, openaiOut, openaiOpen, twilioOut,
          twilioRead, openaiRead, lastEvent, handled>>

callVars == <<pc, producer, consumer, streamSid, latestMediaTimestamp,
              lastAssistantItem, markQueue, responseStartTimestampTwilio,
              openaiOpen, twilioOut, twilioRead, openaiRead, lastEvent>>

-----------------------------------------------------------------------------
(* Bounds of the model.                                                    *)

MaxHandled == 6      \* handleUserResponse calls explored per conversation
MaxMainAnswers == 2  \* utterances fed per conversation when classifying
MaxEvents == 3       \* messages read per connection of a call
MaxTimestamp == 3    \* largest media timestamp drawn

None == "None"
Unset == <<>>

-----------------------------------------------------------------------------
(* Texts.  The characters of every user text the model draws.              *)

Chars(t) ==
    CASE t = "POL123"          -> <<"P","O","L","1","2","3">>
      [] t = "car accident"    -> <<"c","a","r"," ","a","c","c","i","d","e","n","t">>
      [] t = "no"              -> <<"n","o">>
      [] t = "minor"           -> <<"m","i","n","o","r">>
      [] t = "no injuries"     -> <<"n","o"," ","i","n","j","u","r","i","e","s">>
      [] t = "done"            -> <<"d","o","n","e">>
      [] t = "THEFT by vandal" -> <<"T","H","E","F","T"," ","b","y"," ","v","a","n","d","a","l">>
      [] t = "Vandals, DoNe"   -> <<"V","a","n","d","a","l","s",","," ","D","o","N","e">>
      [] t = "Car theft"       -> <<"C","a","r"," ","t","h","e","f","t">>
      [] t = "vandalised CAR"  -> <<"v","a","n","d","a","l","i","s","e","d"," ","C","A","R">>
      [] t = "Theft"           -> <<"T","h","e","f","t">>
      [] t = "scary"           -> <<"s","c","a","r","y">>
      [] t = "the ft"          -> <<"t","h","e"," ","f","t">>
      [] t = "VANDALISM"       -> <<"V","A","N","D","A","L","I","S","M">>
      [] t = "c a r"           -> <<"c"," ","a"," ","r">>
      [] t = "let's talk about weather" ->
             <<"l","e","t","'","s"," ","t","a","l","k"," ","a","b","o","u","t"," ",
               "w","e","a","t","h","e","r">>
      [] t = ""                -> <<>>

UpperCase == <<"A","B","C","D","E","F","G","H","I","J","K","L","M",
               "N","O","P","Q","R","S","T","U","V","W","X","Y","Z">>
LowerCase == <<"a","b","c","d","e","f","g","h","i","j","k","l","m",
               "n","o","p","q","r","s","t","u","v","w","x","y","z">>

\* str.lower(), on the characters of a text
lower(cs) ==
    [i \in 1..Len(cs) |->
        IF \E k \in 1..Len(UpperCase) : UpperCase[k] = cs[i]
        THEN LowerCase[CHOOSE k \in 1..Len(UpperCase) : UpperCase[k] = cs[i]]
        ELSE cs[i]]

\* Python's `sub in text` for strings
contains(sub, cs) ==
    \E i \in 1..(Len(cs) - Len(sub) + 1) : SubSeq(cs, i, i + Len(sub) - 1) = sub

\* the user texts drawn by the conversation specification
Utterances == {"POL123", "car accident", "no", "minor", "no injuries", "done",
               "THEFT by vandal", "Vandals, DoNe"}

\* the user texts drawn when classifying the claim type
ClaimTexts == {"POL123", "car accident", "done", "THEFT by vandal",
               "Vandals, DoNe", "Car theft", "vandalised CAR", "Theft",
               "scary", "the ft", "VANDALISM", "c a r",
               "let's talk about weather", ""}

-----------------------------------------------------------------------------
(* Decision tree flows, server.py:71-94.                                   *)

mainFlow == <<
    [name |-> "policyId",  question |-> "First, can you please tell me your policy ID?"],
    [name |-> "claimType", question |-> "Great, now please describe the nature of your claim: Car accident, theft, or vandalism?"] >>

carAccidentFlow == <<
    [name |-> "alcoholInvolvement", question |-> "Was there any alcohol involved? (yes/no/details)"],
    [name |-> "accidentSeverity",   question |-> "How severe was the accident? (minor, moderate, total loss?)"],
    [name |-> "accidentInjuries",   question |-> "Were there any injuries? If so, please describe briefly."],
    [name |-> "accidentComplete",   question |-> "Thanks. Anything else you'd like to add about the accident?"] >>

theftFlow == <<
    [name |-> "theftLocation",     question |-> "Where did the theft occur? (parking lot, street, home, etc.)"],
    [name |-> "theftItemsStolen",  question |-> "Which items or parts were stolen?"],
    [name |-> "theftPoliceReport", question |-> "Have you filed a police report? If yes, do you have a report number?"],
    [name |-> "theftComplete",     question |-> "Anything else you wish to add about this theft?"] >>

vandalismFlow == <<
    [name |-> "vandalismDetails",      question |-> "Please describe the vandalism (e.g., broken windows, spray paint)."],
    [name |-> "vandalismPoliceReport", question |-> "Did you report this vandalism to authorities? If so, any reference?"],
    [name |-> "vandalismComplete",     question |-> "Understood. Anything else to add regarding this vandalism incident?"] >>

\* state["subFlow"] = None
NoSubFlow == [name |-> None, flowArray |-> <<>>]

\* the conversation state a `start` event creates, server.py:395-400
NewConversationState ==
    [decisionTreeStep |-> 0, subFlow |-> NoSubFlow, subFlowStep |-> 0,
     conversationData |-> <<>>]

Calls == {"call1"}
Sids == {"MZ1"}

-----------------------------------------------------------------------------
(* Ordered dict helpers.                                                   *)

Keys(d) == [i \in 1..Len(d) |-> d[i].key]
Vals(d) == [i \in 1..Len(d) |-> d[i].val]
HasKey(d, k) == \E i \in 1..Len(d) : d[i].key = k

\* d[k] = v : an existing key keeps its position, a new key goes last
DictSet(d, k, v) ==
    IF HasKey(d, k)
    THEN [i \in 1..Len(d) |-> IF d[i].key = k THEN [key |-> k, val |-> v] ELSE d[i]]
    ELSE Append(d, [key |-> k, val |-> v])

-----------------------------------------------------------------------------
(* Messages sent to the speech service by the decision tree.               *)

ItemCreate(text) ==
    [type |-> "conversation.item.create", role |-> "assistant", text |-> text]
ResponseCreate == [type |-> "response.create"]

\* mutant of sendAssistantMessage: the response is requested before the item
sendAssistantMessageResponseFirst(text) == << ResponseCreate, ItemCreate(text) >>

\* server.py:104-120 : the two messages sent, in order
sendAssistantMessage(text) == << ItemCreate(text), ResponseCreate >>

SummaryHeader == "Here is the summary of your claim:\n"
SummaryClosing == "Thank you! We'll store these details. Have a wonderful day!"

\* mutant of SummaryLines: each item is put in front of the lines built so far
RECURSIVE SummaryLinesNewestFirst(_)
SummaryLinesNewestFirst(d) ==
    IF d = <<>> THEN <<>>
    ELSE SummaryLinesNewestFirst(Tail(d)) \o << "- ", Head(d).key, ": ", Head(d).val, "\n" >>

\* the loop of server.py:133-134 : one "- key: val\n" per item, in dict order
RECURSIVE SummaryLines(_)
SummaryLines(d) ==
    IF d = <<>> THEN <<>>
    ELSE << "- ", Head(d).key, ": ", Head(d).val, "\n" >> \o SummaryLines(Tail(d))

\* server.py:126-137, for a registered conversation state
finalizeClaim(state) ==
    sendAssistantMessage(
        <<SummaryHeader>> \o SummaryLines(state.conversationData) \o <<SummaryClosing>>)

MinimalDetailsMsg ==
    "We have minimal details for your claim. Anything else to add? Otherwise say 'done'."
NotedMsg == "Noted. Anything else? Or say 'done' to finalize."
MostDetailsMsg == "We have most details. Say 'done' to finalize or add more info."

\* mutant of askNextQuestion: the main question is indexed by subFlowStep
askNextQuestionWrongCounter(state) ==
    IF state.decisionTreeStep < Len(mainFlow)
    THEN sendAssistantMessage(<< mainFlow[state.subFlowStep + 1].question >>)
    ELSE IF state.subFlow = NoSubFlow
    THEN sendAssistantMessage(<< MinimalDetailsMsg >>)
    ELSE IF state.subFlowStep < Len(state.subFlow.flowArray)
    THEN sendAssistantMessage(
             << state.subFlow.flowArray[state.subFlowStep + 1].question >>)
    ELSE finalizeClaim(state)

\* mutant of askNextQuestion: an exhausted subFlow asks for 'done' instead of
\* finalizing
askNextQuestionNoFinalize(state) ==
    IF state.decisionTreeStep < Len(mainFlow)
    THEN sendAssistantMessage(<< mainFlow[state.decisionTreeStep + 1].question >>)
    ELSE IF state.subFlow = NoSubFlow
    THEN sendAssistantMessage(<< MinimalDetailsMsg >>)
    ELSE IF state.subFlowStep < Len(state.subFlow.flowArray)
    THEN sendAssistantMessage(
             << state.subFlow.flowArray[state.subFlowStep + 1].question >>)
    ELSE sendAssistantMessage(<< MostDetailsMsg >>)

\* server.py:140-171, for a registered conversation state: the messages sent
askNextQuestion(state) ==
    IF state.decisionTreeStep < Len(mainFlow)
    THEN sendAssistantMessage(<< mainFlow[state.decisionTreeStep + 1].question >>)
    ELSE IF state.subFlow = NoSubFlow
    THEN sendAssistantMessage(<< MinimalDetailsMsg >>)
    ELSE IF state.subFlowStep < Len(state.subFlow.flowArray)
    THEN sendAssistantMessage(
             << state.subFlow.flowArray[state.subFlowStep + 1].question >>)
    ELSE finalizeClaim(state)

\* mutant of classifyClaimType: "theft" is looked for before "car"
classifyTheftFirst(userText) ==
    LET claimType == lower(Chars(userText)) IN
    IF contains(<<"t","h","e","f","t">>, claimType)
    THEN [name |-> "theftFlow", flowArray |-> theftFlow]
    ELSE IF contains(<<"c","a","r">>, claimType)
    THEN [name |-> "carAccidentFlow", flowArray |-> carAccidentFlow]
    ELSE IF contains(<<"v","a","n","d","a","l">>, claimType)
    THEN [name |-> "vandalismFlow", flowArray |-> vandalismFlow]
    ELSE NoSubFlow

\* server.py:198-206 : the subFlow chosen for the claim-type answer
classifyClaimType(userText) ==
    LET claimType == lower(Chars(userText)) IN
    IF contains(<<"c","a","r">>, claimType)
    THEN [name |-> "carAccidentFlow", flowArray |-> carAccidentFlow]
    ELSE IF contains(<<"t","h","e","f","t">>, claimType)
    THEN [name |-> "theftFlow", flowArray |-> theftFlow]
    ELSE IF contains(<<"v","a","n","d","a","l">>, claimType)
    THEN [name |-> "vandalismFlow", flowArray |-> vandalismFlow]
    ELSE NoSubFlow

\* mutant of saysDone: the text is not lowered
saysDoneCaseSensitive(userText) == contains(<<"d","o","n","e">>, Chars(userText))

\* "done" in userText.lower()
saysDone(userText) == contains(<<"d","o","n","e">>, lower(Chars(userText)))

\* mutant of recordMainAnswer: every main answer is classified
recordMainAnswerAlwaysClassifies(state, userText) ==
    LET questionObj == mainFlow[state.decisionTreeStep + 1]
        data == DictSet(state.conversationData, questionObj.name, userText)
    IN [state EXCEPT
          !.conversationData = data,
          !.subFlow = classifyClaimType(userText),
          !.decisionTreeStep = @ + 1]

\* mutant of recordMainAnswer: a main answer advances both counters
recordMainAnswerAdvancesBoth(state, userText) ==
    LET questionObj == mainFlow[state.decisionTreeStep + 1]
        data == DictSet(state.conversationData, questionObj.name, userText)
    IN [state EXCEPT
          !.conversationData = data,
          !.subFlow = IF questionObj.name = "claimType"
                      THEN classifyClaimType(userText) ELSE @,
          !.decisionTreeStep = @ + 1,
          !.subFlowStep = @ + 1]

\* server.py:191-210 : the state after an answer to a main question
recordMainAnswer(state, userText) ==
    LET questionObj == mainFlow[state.decisionTreeStep + 1]
        data == DictSet(state.conversationData, questionObj.name, userText)
    IN [state EXCEPT
          !.conversationData = data,
          !.subFlow = IF questionObj.name = "claimType"
                      THEN classifyClaimType(userText) ELSE @,
          !.decisionTreeStep = @ + 1]

\* mutant of recordSubFlowAnswer: the answer is stored under "claimType"
recordSubFlowAnswerOverwrites(state, userText) ==
    [state EXCEPT
       !.conversationData = DictSet(@, "claimType", userText),
       !.subFlowStep = @ + 1]

\* server.py:223-227 : the state after an answer to a subFlow question
recordSubFlowAnswer(state, userText) ==
    LET questionObj == state.subFlow.flowArray[state.subFlowStep + 1] IN
    [state EXCEPT
       !.conversationData = DictSet(@, questionObj.name, userText),
       !.subFlowStep = @ + 1]

\* mutant of handleUserResponse: with the branch exhausted every text finalizes
handleUserResponseAlwaysFinalizes(state, userText) ==
    IF state.decisionTreeStep < Len(mainFlow)
    THEN LET new == recordMainAnswer(state, userText)
         IN [state |-> new, sent |-> askNextQuestion(new)]
    ELSE IF state.subFlow = NoSubFlow
    THEN [state |-> state,
          sent |-> IF saysDone(userText) THEN finalizeClaim(state)
                   ELSE sendAssistantMessage(<< NotedMsg >>)]
    ELSE IF state.subFlowStep < Len(state.subFlow.flowArray)
    THEN LET new == recordSubFlowAnswer(state, userText)
         IN [state |-> new, sent |-> askNextQuestion(new)]
    ELSE [state |-> state, sent |-> finalizeClaim(state)]

\* server.py:186-234, for a registered conversation state:
\* the state it leaves and the messages it sends
handleUserResponse(state, userText) ==
    IF state.decisionTreeStep < Len(mainFlow)
    THEN LET new == recordMainAnswer(state, userText)
         IN [state |-> new, sent |-> askNextQuestion(new)]
    ELSE IF state.subFlow = NoSubFlow
    THEN [state |-> state,
          sent |-> IF saysDone(userText) THEN finalizeClaim(state)
                   ELSE sendAssistantMessage(<< NotedMsg >>)]
    ELSE IF state.subFlowStep < Len(state.subFlow.flowArray)
    THEN LET new == recordSubFlowAnswer(state, userText)
         IN [state |-> new, sent |-> askNextQuestion(new)]
    ELSE [state |-> state,
          sent |-> IF saysDone(userText) THEN finalizeClaim(state)
                   ELSE sendAssistantMessage(<< MostDetailsMsg >>)]

\* a call of handleUserResponse(sid, openai_ws of call c, userText),
\* server.py:174-234 : its effect on conversationStates and on openai_ws
HandleUserResponseCall(c, sid, userText) ==
    /\ handled' = [handled EXCEPT ![c] = @ + 1]
    /\ IF sid \in DOMAIN conversationStates
       THEN LET r == handleUserResponse(conversationStates[sid], userText) IN
            /\ conversationStates' = [conversationStates EXCEPT ![sid] = r.state]
            /\ openaiOut' = [openaiOut EXCEPT ![c] = @ \o r.sent]
       ELSE UNCHANGED <<conversationStates, openaiOut>>

-----------------------------------------------------------------------------
(* Session set-up, server.py:288-306.                                      *)

SessionUpdate == [type |-> "session.update"]
Greeting ==
    "Hello there! I am your AI assistant for auto insurance claims. Let's get started!"

\* what has been sent on openai_ws when the two loops start
SetupMessages == <<SessionUpdate>> \o sendAssistantMessage(<< Greeting >>)

NoEvent == [src |-> None, type |-> None, text |-> None, ts |-> Unset]

-----------------------------------------------------------------------------
(* The conversation on its own: a call whose stream MZ1 is registered as   *)
(* the `start` handler registers it (server.py:395-400), fed user texts.   *)

InitFlow ==
    /\ conversationStates = [s \in Sids |-> NewConversationState]
    /\ transcript = <<>>
    /\ pc = [c \in Calls |-> "active"]
    /\ producer = [c \in Calls |-> "running"]
    /\ consumer = [c \in Calls |-> "running"]
    /\ streamSid = [c \in Calls |-> "MZ1"]
    /\ latestMediaTimestamp = [c \in Calls |-> 0]
    /\ lastAssistantItem = [c \in Calls |-> None]
    /\ markQueue = [c \in Calls |-> <<>>]
    /\ responseStartTimestampTwilio = [c \in Calls |-> Unset]
    /\ openaiOut = [c \in Calls |-> SetupMessages]
    /\ openaiOpen = [c \in Calls |-> TRUE]
    /\ twilioOut = [c \in Calls |-> <<>>]
    /\ twilioRead = [c \in Calls |-> 0]
    /\ openaiRead = [c \in Calls |-> 0]
    /\ lastEvent = [c \in Calls |-> NoEvent]
    /\ handled = [c \in Calls |-> 0]

UserUtterance(c, userText) ==
    /\ handled[c] < MaxHandled
    /\ HandleUserResponseCall(c, streamSid[c], userText)
    /\ UNCHANGED <<transcript, callVars>>

NextFlow == \E c \in Calls : \E u \in Utterances : UserUtterance(c, u)

SpecFlow == InitFlow /\ [][NextFlow]_vars

ClaimTypeUtterance(c, userText) ==
    /\ handled[c] < MaxMainAnswers
    /\ HandleUserResponseCall(c, streamSid[c], userText)
    /\ UNCHANGED <<transcript, callVars>>

NextClassify == \E c \in Calls : \E u \in ClaimTexts : ClaimTypeUtterance(c, u)

SpecClassify == InitFlow /\ [][NextClassify]_vars

-----------------------------------------------------------------------------
(* One call: media_stream_endpoint and its two tasks.                      *)

Payloads == {"AAAA"}           \* base64 audio of inbound frames
Deltas == {"AAAA", ""}         \* audio of a response.audio.delta; "" is falsy
ItemIds == {"item_1"}
Roles == {"user", "assistant", "system"}
EventTexts == {"car accident", "done"}

Event(src, type, text, ts) == [src |-> src, type |-> type, text |-> text, ts |-> ts]

Last(q) == q[Len(q)]

\* role.capitalize()
capitalize(role) ==
    CASE role = "user" -> "User" [] role = "assistant" -> "Assistant" [] OTHER -> role

EmptyStates == [s \in {} |-> NewConversationState]

\* server.py:272-287 : the connection is accepted, nothing is sent yet
Init ==
    /\ conversationStates = EmptyStates
    /\ transcript = <<>>
    /\ pc = [c \in Calls |-> "connecting"]
    /\ producer = [c \in Calls |-> "notstarted"]
    /\ consumer = [c \in Calls |-> "notstarted"]
    /\ streamSid = [c \in Calls |-> None]
    /\ latestMediaTimestamp = [c \in Calls |-> 0]
    /\ lastAssistantItem = [c \in Calls |-> None]
    /\ markQueue = [c \in Calls |-> <<>>]
    /\ responseStartTimestampTwilio = [c \in Calls |-> Unset]
    /\ openaiOut = [c \in Calls |-> <<>>]
    /\ openaiOpen = [c \in Calls |-> FALSE]
    /\ twilioOut = [c \in Calls |-> <<>>]
    /\ twilioRead = [c \in Calls |-> 0]
    /\ openaiRead = [c \in Calls |-> 0]
    /\ lastEvent = [c \in Calls |-> NoEvent]
    /\ handled = [c \in Calls |-> 0]

\* set_streamSid, set_latestMediaTimestamp, set_responseStartTimestamp and
\* set_lastAssistantItem are bound by the def statements of server.py:345-362,
\* which run after the `async with` block and the cleanup: until then the
\* lambdas of server.py:321-327 raise NameError when called.
SettersDefined(c) == pc[c] = "closed"

\* mutant of Connect: the greeting is sent before the session is configured
ConnectGreetingFirst(c) ==
    /\ pc[c] = "connecting"
    /\ pc' = [pc EXCEPT ![c] = "active"]
    /\ openaiOpen' = [openaiOpen EXCEPT ![c] = TRUE]
    /\ openaiOut' = [openaiOut EXCEPT ![c] =
                        @ \o sendAssistantMessage(<< Greeting >>) \o << SessionUpdate >>]
    /\ producer' = [producer EXCEPT ![c] = "running"]
    /\ consumer' = [consumer EXCEPT ![c] = "running"]
    /\ UNCHANGED <<conversationStates, transcript, streamSid, latestMediaTimestamp,
                   lastAssistantItem, markQueue, responseStartTimestampTwilio,
                   twilioOut, twilioRead, openaiRead, lastEvent, handled>>

\* server.py:288-329 : connect, configure the session, greet, start both tasks
Connect(c) ==
    /\ pc[c] = "connecting"
    /\ pc' = [pc EXCEPT ![c] = "active"]
    /\ openaiOpen' = [openaiOpen EXCEPT ![c] = TRUE]
    /\ openaiOut' = [openaiOut EXCEPT ![c] = @ \o SetupMessages]
    /\ producer' = [producer EXCEPT ![c] = "running"]
    /\ consumer' = [consumer EXCEPT ![c] = "running"]
    /\ UNCHANGED <<conversationStates, transcript, streamSid, latestMediaTimestamp,
                   lastAssistantItem, markQueue, responseStartTimestampTwilio,
                   twilioOut, twilioRead, openaiRead, lastEvent, handled>>

\* server.py:288 : websockets.connect raises, the endpoint ends with the error
ConnectFails(c) ==
    /\ pc[c] = "connecting"
    /\ pc' = [pc EXCEPT ![c] = "failed"]
    /\ UNCHANGED <<conversationStates, transcript, producer, consumer, streamSid,
                   latestMediaTimestamp, lastAssistantItem, markQueue,
                   responseStartTimestampTwilio, openaiOut, openaiOpen, twilioOut,
                   twilioRead, openaiRead, lastEvent, handled>>

\* mutant of Teardown: the cleanup empties conversationStates
TeardownDropsAll(c) ==
    /\ pc[c] = "active"
    /\ producer[c] # "running" \/ consumer[c] # "running"
    /\ producer' = [producer EXCEPT ![c] = IF @ = "running" THEN "cancelled" ELSE @]
    /\ consumer' = [consumer EXCEPT ![c] = IF @ = "running" THEN "cancelled" ELSE @]
    /\ openaiOpen' = [openaiOpen EXCEPT ![c] = FALSE]
    /\ conversationStates' = EmptyStates
    /\ pc' = [pc EXCEPT ![c] = "closed"]
    /\ UNCHANGED <<transcript, streamSid, latestMediaTimestamp, lastAssistantItem,
                   markQueue, responseStartTimestampTwilio, openaiOut, twilioOut,
                   twilioRead, openaiRead, lastEvent, handled>>

\* mutant of Teardown: the conversation state is not dropped
TeardownKeepsState(c) ==
    /\ pc[c] = "active"
    /\ producer[c] # "running" \/ consumer[c] # "running"
    /\ producer' = [producer EXCEPT ![c] = IF @ = "running" THEN "cancelled" ELSE @]
    /\ consumer' = [consumer EXCEPT ![c] = IF @ = "running" THEN "cancelled" ELSE @]
    /\ openaiOpen' = [openaiOpen EXCEPT ![c] = FALSE]
    /\ pc' = [pc EXCEPT ![c] = "closed"]
    /\ UNCHANGED <<conversationStates, transcript, streamSid, latestMediaTimestamp,
                   lastAssistantItem, markQueue, responseStartTimestampTwilio,
                   openaiOut, twilioOut, twilioRead, openaiRead, lastEvent, handled>>

\* server.py:331-342 : a task is done; cancel the other, leave the
\* `async with` (closing openai_ws), drop the conversation state
Teardown(c) ==
    /\ pc[c] = "active"
    /\ producer[c] # "running" \/ consumer[c] # "running"
    /\ producer' = [producer EXCEPT ![c] = IF @ = "running" THEN "cancelled" ELSE @]
    /\ consumer' = [consumer EXCEPT ![c] = IF @ = "running" THEN "cancelled" ELSE @]
    /\ openaiOpen' = [openaiOpen EXCEPT ![c] = FALSE]
    /\ conversationStates' =
          IF streamSid[c] # None /\ streamSid[c] \in DOMAIN conversationStates
          THEN [s \in DOMAIN conversationStates \ {streamSid[c]} |->
                   conversationStates[s]]
          ELSE conversationStates
    /\ pc' = [pc EXCEPT ![c] = "closed"]
    /\ UNCHANGED <<transcript, streamSid, latestMediaTimestamp, lastAssistantItem,
                   markQueue, responseStartTimestampTwilio, openaiOut, twilioOut,
                   twilioRead, openaiRead, lastEvent, handled>>

-----------------------------------------------------------------------------
(* handle_twilio_messages, server.py:369-438: one action per message read. *)

TwilioReads(c, ev) ==
    /\ producer[c] = "running"
    /\ twilioRead[c] < MaxEvents
    /\ twilioRead' = [twilioRead EXCEPT ![c] = @ + 1]
    /\ lastEvent' = [lastEvent EXCEPT ![c] = ev]

\* the task ends with an exception nothing catches
ProducerFails(c) == producer' = [producer EXCEPT ![c] = "failed"]

\* server.py:391-403
TwilioStart(c, sid) ==
    /\ TwilioReads(c, Event("twilio", "start", sid, Unset))
    /\ IF SettersDefined(c)
       THEN /\ streamSid' = [streamSid EXCEPT ![c] = sid]
            /\ conversationStates' =
                  [s \in DOMAIN conversationStates \cup {sid} |->
                      IF s = sid THEN NewConversationState ELSE conversationStates[s]]
            /\ transcript' = Append(transcript,
                  [role |-> "--- New call started", text |-> sid])
            /\ UNCHANGED producer
       ELSE /\ ProducerFails(c)      \* NameError at server.py:393
            /\ UNCHANGED <<streamSid, conversationStates, transcript>>
    /\ UNCHANGED <<pc, consumer, latestMediaTimestamp, lastAssistantItem, markQueue,
                   responseStartTimestampTwilio, openaiOut, openaiOpen, twilioOut,
                   openaiRead, handled>>

AudioAppend(payload) == [type |-> "input_audio_buffer.append", audio |-> payload]

\* server.py:405-417
TwilioMedia(c, timestamp, payload) ==
    /\ TwilioReads(c, Event("twilio", "media", payload, <<timestamp>>))
    /\ IF SettersDefined(c)
       THEN /\ latestMediaTimestamp' = [latestMediaTimestamp EXCEPT ![c] = timestamp]
            /\ openaiOut' = IF openaiOpen[c]
                            THEN [openaiOut EXCEPT ![c] = Append(@, AudioAppend(payload))]
                            ELSE openaiOut
            /\ UNCHANGED producer
       ELSE /\ ProducerFails(c)      \* NameError at server.py:409
            /\ UNCHANGED <<latestMediaTimestamp, openaiOut>>
    /\ UNCHANGED <<conversationStates, transcript, pc, consumer, streamSid,
                   lastAssistantItem, markQueue, responseStartTimestampTwilio,
                   openaiOpen, twilioOut, openaiRead, handled>>

\* server.py:419-422
TwilioMark(c) ==
    /\ TwilioReads(c, Event("twilio", "mark", "responsePart", Unset))
    /\ markQueue' = [markQueue EXCEPT ![c] = IF @ # <<>> THEN Tail(@) ELSE @]
    /\ UNCHANGED <<conversationStates, transcript, pc, producer, consumer, streamSid,
                   latestMediaTimestamp, lastAssistantItem,
                   responseStartTimestampTwilio, openaiOut, openaiOpen, twilioOut,
                   openaiRead, handled>>

\* mutant of TwilioStop: the line is written but the loop goes on reading
TwilioStopKeepsReading(c) ==
    /\ TwilioReads(c, Event("twilio", "stop", None, Unset))
    /\ transcript' = IF streamSid[c] # None
                     THEN Append(transcript,
                              [role |-> "--- Call ended", text |-> streamSid[c]])
                     ELSE transcript
    /\ UNCHANGED <<conversationStates, pc, producer, consumer, streamSid,
                   latestMediaTimestamp, lastAssistantItem, markQueue,
                   responseStartTimestampTwilio, openaiOut, openaiOpen, twilioOut,
                   openaiRead, handled>>

\* server.py:424-431
TwilioStop(c) ==
    /\ TwilioReads(c, Event("twilio", "stop", None, Unset))
    /\ transcript' = IF streamSid[c] # None
                     THEN Append(transcript,
                              [role |-> "--- Call ended", text |-> streamSid[c]])
                     ELSE transcript
    /\ producer' = [producer EXCEPT ![c] = "returned"]
    /\ UNCHANGED <<conversationStates, pc, consumer, streamSid, latestMediaTimestamp,
                   lastAssistantItem, markQueue, responseStartTimestampTwilio,
                   openaiOut, openaiOpen, twilioOut, openaiRead, handled>>

\* server.py:433-435 : any other event, or a JSON object without "event"
TwilioOther(c) ==
    /\ TwilioReads(c, Event("twilio", "other", None, Unset))
    /\ UNCHANGED <<conversationStates, transcript, pc, producer, consumer, streamSid,
                   latestMediaTimestamp, lastAssistantItem, markQueue,
                   responseStartTimestampTwilio, openaiOut, openaiOpen, twilioOut,
                   openaiRead, handled>>

\* server.py:388 : json.loads raises; only WebSocketDisconnect is caught (437)
TwilioMalformed(c) ==
    /\ TwilioReads(c, Event("twilio", "malformed", None, Unset))
    /\ ProducerFails(c)
    /\ UNCHANGED <<conversationStates, transcript, pc, consumer, streamSid,
                   latestMediaTimestamp, lastAssistantItem, markQueue,
                   responseStartTimestampTwilio, openaiOut, openaiOpen, twilioOut,
                   openaiRead, handled>>

\* server.py:387, 437-438 : receive_text raises WebSocketDisconnect
TwilioDisconnect(c) ==
    /\ TwilioReads(c, Event("twilio", "disconnect", None, Unset))
    /\ producer' = [producer EXCEPT ![c] = "returned"]
    /\ UNCHANGED <<conversationStates, transcript, pc, consumer, streamSid,
                   latestMediaTimestamp, lastAssistantItem, markQueue,
                   responseStartTimestampTwilio, openaiOut, openaiOpen, twilioOut,
                   openaiRead, handled>>

-----------------------------------------------------------------------------
(* handle_openai_messages, server.py:441-521: one action per message read. *)

OpenAIReads(c, ev) ==
    /\ consumer[c] = "running"
    /\ openaiRead[c] < MaxEvents
    /\ openaiRead' = [openaiRead EXCEPT ![c] = @ + 1]
    /\ lastEvent' = [lastEvent EXCEPT ![c] = ev]

MediaOut(sid, payload) == [event |-> "media", streamSid |-> sid, payload |-> payload]
MarkOut(sid) == [event |-> "mark", streamSid |-> sid, name |-> "responsePart"]
ClearOut(sid) == [event |-> "clear", streamSid |-> sid]
Truncate(item, index, ms) ==
    [type |-> "conversation.item.truncate", item_id |-> item,
     content_index |-> index, audio_end_ms |-> ms]

\* mutant of send_mark: the mark is sent but not recorded in the queue
send_mark_NoAppend(sid, queue) ==
    IF sid # None
    THEN [toTwilio |-> << MarkOut(sid) >>, markQueue |-> queue]
    ELSE [toTwilio |-> <<>>, markQueue |-> queue]

\* server.py:527-542 : what send_mark sends and the markQueue it leaves
send_mark(sid, queue) ==
    IF sid # None
    THEN [toTwilio |-> << MarkOut(sid) >>, markQueue |-> Append(queue, "responsePart")]
    ELSE [toTwilio |-> <<>>, markQueue |-> queue]

\* server.py:468-480
OpenAIAudioDelta(c, delta) ==
    /\ OpenAIReads(c, Event("openai", "response.audio.delta", delta, Unset))
    /\ LET media == IF delta # "" THEN << MediaOut(streamSid[c], delta) >> ELSE <<>>
           mark == send_mark(streamSid[c], markQueue[c])
       IN /\ twilioOut' = [twilioOut EXCEPT ![c] = @ \o media \o mark.toTwilio]
          /\ markQueue' = [markQueue EXCEPT ![c] = mark.markQueue]
    /\ UNCHANGED <<conversationStates, transcript, pc, producer, consumer, streamSid,
                   latestMediaTimestamp, lastAssistantItem,
                   responseStartTimestampTwilio, openaiOut, openaiOpen, twilioRead,
                   handled>>

\* " ".join(text_chunks) for the content of an item: no chunk or one chunk
combinedText(content) == IF content = <<>> THEN "" ELSE content[1]

\* server.py:482-502
OpenAIItemCreate(c, role, content) ==
    /\ OpenAIReads(c, Event("openai", "conversation.item.create", role, Unset))
    /\ IF role \in {"user", "assistant"}
       THEN /\ transcript' = Append(transcript,
                  [role |-> capitalize(role), text |-> combinedText(content)])
            /\ IF role = "user" /\ streamSid[c] # None
               THEN HandleUserResponseCall(c, streamSid[c], combinedText(content))
               ELSE UNCHANGED <<conversationStates, openaiOut, handled>>
       ELSE UNCHANGED <<transcript, conversationStates, openaiOut, handled>>
    /\ UNCHANGED <<pc, producer, consumer, streamSid, latestMediaTimestamp,
                   lastAssistantItem, markQueue, responseStartTimestampTwilio,
                   openaiOpen, twilioOut, twilioRead>>

\* mutant of handle_speech_started_event: no early return, None counts as 0
handle_speech_started_event_NoGuard(sid, latest, responseStartTs, lastItem) ==
    LET elapsedTime == latest - (IF responseStartTs = Unset THEN 0
                                 ELSE responseStartTs[1]) IN
    [toOpenAI |-> IF lastItem # None
                  THEN << Truncate(lastItem, 0, elapsedTime) >> ELSE <<>>,
     toTwilio |-> IF sid # None THEN << ClearOut(sid) >> ELSE <<>>]

\* mutant of handle_speech_started_event: the subtraction is the other way round
handle_speech_started_event_Swapped(sid, latest, responseStartTs, lastItem) ==
    IF responseStartTs = Unset
    THEN [toOpenAI |-> <<>>, toTwilio |-> <<>>]
    ELSE LET elapsedTime == responseStartTs[1] - latest IN
         [toOpenAI |-> IF lastItem # None
                       THEN << Truncate(lastItem, 0, elapsedTime) >> ELSE <<>>,
          toTwilio |-> IF sid # None THEN << ClearOut(sid) >> ELSE <<>>]

\* server.py:545-578 : the messages handle_speech_started_event sends
handle_speech_started_event(sid, latest, responseStartTs, lastItem) ==
    IF responseStartTs = Unset
    THEN [toOpenAI |-> <<>>, toTwilio |-> <<>>]
    ELSE LET elapsedTime == latest - responseStartTs[1] IN
         [toOpenAI |-> IF lastItem # None
                       THEN << Truncate(lastItem, 0, elapsedTime) >> ELSE <<>>,
          toTwilio |-> IF sid # None THEN << ClearOut(sid) >> ELSE <<>>]

\* server.py:504-514
OpenAISpeechStarted(c) ==
    /\ OpenAIReads(c, Event("openai", "input_audio_buffer.speech_started", None, Unset))
    /\ LET r == handle_speech_started_event(streamSid[c], latestMediaTimestamp[c],
                    responseStartTimestampTwilio[c], lastAssistantItem[c])
       IN /\ openaiOut' = [openaiOut EXCEPT ![c] = @ \o r.toOpenAI]
          /\ twilioOut' = [twilioOut EXCEPT ![c] = @ \o r.toTwilio]
    /\ UNCHANGED <<conversationStates, transcript, pc, producer, consumer, streamSid,
                   latestMediaTimestamp, lastAssistantItem, markQueue,
                   responseStartTimestampTwilio, openaiOpen, twilioRead, handled>>

\* server.py:516-518 : any other type
OpenAIOther(c) ==
    /\ OpenAIReads(c, Event("openai", "other", None, Unset))
    /\ UNCHANGED <<conversationStates, transcript, pc, producer, consumer, streamSid,
                   latestMediaTimestamp, lastAssistantItem, markQueue,
                   responseStartTimestampTwilio, openaiOut, openaiOpen, twilioOut,
                   twilioRead, handled>>

\* server.py:468 : a JSON object without "type", response["type"] raises
\* KeyError; only ConnectionClosedError is caught (520)
OpenAINoType(c) ==
    /\ OpenAIReads(c, Event("openai", "notype", None, Unset))
    /\ consumer' = [consumer EXCEPT ![c] = "failed"]
    /\ UNCHANGED <<conversationStates, transcript, pc, producer, streamSid,
                   latestMediaTimestamp, lastAssistantItem, markQueue,
                   responseStartTimestampTwilio, openaiOut, openaiOpen, twilioOut,
                   twilioRead, handled>>

\* server.py:458-462 : not JSON, skipped
OpenAIMalformed(c) ==
    /\ OpenAIReads(c, Event("openai", "malformed", None, Unset))
    /\ UNCHANGED <<conversationStates, transcript, pc, producer, consumer, streamSid,
                   latestMediaTimestamp, lastAssistantItem, markQueue,
                   responseStartTimestampTwilio, openaiOut, openaiOpen, twilioOut,
                   twilioRead, handled>>

\* server.py:457, 520-521 : the speech service closes the connection
OpenAIClosed(c) ==
    /\ OpenAIReads(c, Event("openai", "closed", None, Unset))
    /\ consumer' = [consumer EXCEPT ![c] = "returned"]
    /\ openaiOpen' = [openaiOpen EXCEPT ![c] = FALSE]
    /\ UNCHANGED <<conversationStates, transcript, pc, producer, streamSid,
                   latestMediaTimestamp, lastAssistantItem, markQueue,
                   responseStartTimestampTwilio, openaiOut, twilioOut, twilioRead,
                   handled>>

-----------------------------------------------------------------------------
(* The whole program.                                                      *)

Next ==
    \E c \in Calls :
        \/ Connect(c)
        \/ ConnectFails(c)
        \/ Teardown(c)
        \/ \E sid \in Sids : TwilioStart(c, sid)
        \/ \E t \in 0..MaxTimestamp : \E p \in Payloads : TwilioMedia(c, t, p)
        \/ TwilioMark(c)
        \/ TwilioStop(c)
        \/ TwilioOther(c)
        \/ TwilioMalformed(c)
        \/ TwilioDisconnect(c)
        \/ \E d \in Deltas : OpenAIAudioDelta(c, d)
        \/ \E r \in Roles :
              \E content \in {<<>>} \cup {<<t>> : t \in EventTexts} :
                  OpenAIItemCreate(c, r, content)
        \/ OpenAISpeechStarted(c)
        \/ OpenAIOther(c)
        \/ OpenAINoType(c)
        \/ OpenAIMalformed(c)
        \/ OpenAIClosed(c)

Spec == Init /\ [][Next]_vars

-----------------------------------------------------------------------------
(* The relay handlers on their own: the arguments the speech-service loop  *)
(* hands to its handlers (stream id, timestamps, utterance id, mark queue) *)
(* are drawn from bounded sets, then events are handled.                   *)

\* the timestamps drawn: small ones, and the pair 4200, 5000
Timestamps == (0..MaxTimestamp) \cup {4200, 5000}

InitRelay ==
    /\ conversationStates = EmptyStates
    /\ transcript = <<>>
    /\ pc = [c \in Calls |-> "active"]
    /\ producer = [c \in Calls |-> "running"]
    /\ consumer = [c \in Calls |-> "running"]
    /\ streamSid \in [Calls -> Sids \cup {None}]
    /\ latestMediaTimestamp \in [Calls -> Timestamps]
    /\ lastAssistantItem \in [Calls -> ItemIds \cup {None}]
    /\ markQueue \in [Calls -> {<<>>, <<"responsePart">>}]
    /\ responseStartTimestampTwilio \in
          [Calls -> {Unset} \cup {<<t>> : t \in Timestamps}]
    /\ openaiOut = [c \in Calls |-> SetupMessages]
    /\ openaiOpen = [c \in Calls |-> TRUE]
    /\ twilioOut = [c \in Calls |-> <<>>]
    /\ twilioRead = [c \in Calls |-> 0]
    /\ openaiRead = [c \in Calls |-> 0]
    /\ lastEvent = [c \in Calls |-> NoEvent]
    /\ handled = [c \in Calls |-> 0]

NextRelay ==
    \E c \in Calls :
        \/ OpenAISpeechStarted(c)
        \/ \E d \in Deltas : OpenAIAudioDelta(c, d)
        \/ TwilioMark(c)

SpecRelay == InitRelay /\ [][NextRelay]_vars

-----------------------------------------------------------------------------
(* A session in progress: both tasks run, the stream id is unknown or known *)
(* and registered; the two loops read messages until one ends, and the     *)
(* endpoint, woken by asyncio.wait, tears the call down.                   *)

InitSession ==
    /\ \E sid \in Sids \cup {None} :
          /\ streamSid = [c \in Calls |-> sid]
          /\ conversationStates =
                IF sid = None THEN EmptyStates
                ELSE [s \in {sid} |-> NewConversationState]
    /\ transcript = <<>>
    /\ pc = [c \in Calls |-> "active"]
    /\ producer = [c \in Calls |-> "running"]
    /\ consumer = [c \in Calls |-> "running"]
    /\ latestMediaTimestamp = [c \in Calls |-> 0]
    /\ lastAssistantItem = [c \in Calls |-> None]
    /\ markQueue = [c \in Calls |-> <<>>]
    /\ responseStartTimestampTwilio = [c \in Calls |-> Unset]
    /\ openaiOut = [c \in Calls |-> SetupMessages]
    /\ openaiOpen = [c \in Calls |-> TRUE]
    /\ twilioOut = [c \in Calls |-> <<>>]
    /\ twilioRead = [c \in Calls |-> 0]
    /\ openaiRead = [c \in Calls |-> 0]
    /\ lastEvent = [c \in Calls |-> NoEvent]
    /\ handled = [c \in Calls |-> 0]

NextSession ==
    \E c \in Calls :
        \/ Teardown(c)
        \/ \E sid \in Sids : TwilioStart(c, sid)
        \/ TwilioMark(c)
        \/ TwilioStop(c)
        \/ TwilioMalformed(c)
        \/ TwilioDisconnect(c)
        \/ \E d \in Deltas : OpenAIAudioDelta(c, d)
        \/ \E t \in EventTexts : OpenAIItemCreate(c, "user", <<t>>)
        \/ OpenAINoType(c)
        \/ OpenAIMalformed(c)
        \/ OpenAIClosed(c)

\* server.py:331-334 : asyncio.wait returns once a task is done, so the
\* endpoint's teardown is not postponed for ever
SpecSession ==
    InitSession /\ [][NextSession]_vars /\ \A c \in Calls : WF_vars(Teardown(c))

-----------------------------------------------------------------------------
(* Two sessions in progress at once: each connection to /media-stream runs *)
(* media_stream_endpoint with locals of its own; conversationStates and    *)
(* the transcript are the module's globals.                                *)

TwoCalls == {"call1", "call2"}
SidOf == [c \in TwoCalls |-> IF c = "call1" THEN "MZ1" ELSE "MZ2"]

InitTwoCalls ==
    /\ conversationStates = [s \in {SidOf[c] : c \in TwoCalls} |-> NewConversationState]
    /\ transcript = <<>>
    /\ pc = [c \in TwoCalls |-> "active"]
    /\ producer = [c \in TwoCalls |-> "running"]
    /\ consumer = [c \in TwoCalls |-> "running"]
    /\ streamSid = SidOf
    /\ latestMediaTimestamp = [c \in TwoCalls |-> 0]
    /\ lastAssistantItem = [c \in TwoCalls |-> None]
    /\ markQueue = [c \in TwoCalls |-> <<>>]
    /\ responseStartTimestampTwilio = [c \in TwoCalls |-> Unset]
    /\ openaiOut = [c \in TwoCalls |-> SetupMessages]
    /\ openaiOpen = [c \in TwoCalls |-> TRUE]
    /\ twilioOut = [c \in TwoCalls |-> <<>>]
    /\ twilioRead = [c \in TwoCalls |-> 0]
    /\ openaiRead = [c \in TwoCalls |-> 0]
    /\ lastEvent = [c \in TwoCalls |-> NoEvent]
    /\ handled = [c \in TwoCalls |-> 0]

NextTwoCalls ==
    \E c \in TwoCalls :
        \/ Teardown(c)
        \/ TwilioStart(c, SidOf[c])
        \/ TwilioMark(c)
        \/ OpenAIAudioDelta(c, "AAAA")
        \/ OpenAIItemCreate(c, "user", << "car accident" >>)

SpecTwoCalls == InitTwoCalls /\ [][NextTwoCalls]_vars

-----------------------------------------------------------------------------
(* Claims.                                                                 *)

TheCall == "call1"
SpeechStarted == "input_audio_buffer.speech_started"

\* C1. Barge-in: once a speech_started event has been handled, every audio
\* frame forwarded to the telephony leg before it is followed by a `clear`
\* sent to the telephony leg, and a truncate has been sent to the speech
\* service when an assistant utterance id is recorded.
C1_BargeInClears ==
    \A c \in Calls :
        lastEvent[c].type = SpeechStarted =>
            \A i \in 1..Len(twilioOut[c]) :
                twilioOut[c][i].event = "media" =>
                    /\ \E j \in (i+1)..Len(twilioOut[c]) : twilioOut[c][j].event = "clear"
                    /\ lastAssistantItem[c] # None =>
                          \E k \in 1..Len(openaiOut[c]) :
                              openaiOut[c][k].type = "conversation.item.truncate"

\* C2. After the telephony loop has handled `start` with stream id s, the
\* call's stream id is s, conversationStates[s] is the fresh state and the
\* loop is still running.
C2_StartRegistersCall ==
    \A c \in Calls :
        (lastEvent[c].type = "start" /\ pc[c] = "active") =>
            /\ streamSid[c] = lastEvent[c].text
            /\ lastEvent[c].text \in DOMAIN conversationStates
            /\ conversationStates[lastEvent[c].text] = NewConversationState
            /\ producer[c] = "running"

\* C3. After the telephony loop has handled `media` with timestamp t and
\* payload p while openai_ws is open, latestMediaTimestamp is t, the last
\* message sent to the speech service is the append carrying p, and the loop
\* is still running.
C3_MediaForwarded ==
    \A c \in Calls :
        (lastEvent[c].type = "media" /\ pc[c] = "active" /\ openaiOpen[c]) =>
            /\ latestMediaTimestamp[c] = lastEvent[c].ts[1]
            /\ Last(openaiOut[c]).type = "input_audio_buffer.append"
            /\ Last(openaiOut[c]).audio = lastEvent[c].text
            /\ producer[c] = "running"

\* C4. subFlow is unset until the claimType answer is recorded, and it
\* changes in no step but the one that records the claimType answer.
C4_BranchAssignedOnce ==
    /\ [](\A s \in DOMAIN conversationStates :
            ~HasKey(conversationStates[s].conversationData, "claimType")
                => conversationStates[s].subFlow = NoSubFlow)
    /\ [][\A s \in DOMAIN conversationStates :
            conversationStates'[s].subFlow # conversationStates[s].subFlow =>
                /\ ~HasKey(conversationStates[s].conversationData, "claimType")
                /\ HasKey(conversationStates'[s].conversationData, "claimType")]_vars

\* a recognised branch was chosen and utterances were handled after it was
\* exhausted
C4_Witness ==
    /\ conversationStates["MZ1"].subFlow.name = "vandalismFlow"
    /\ conversationStates["MZ1"].subFlowStep = 3
    /\ handled[TheCall] = 6

BranchQuestions ==
    {f[i].question : f \in {carAccidentFlow, theftFlow, vandalismFlow}, i \in 1..3}
    \cup {carAccidentFlow[4].question, theftFlow[4].question}

\* the item sent for the k-th utterance handled on the call's openai_ws
ItemOf(c, k) == openaiOut[c][Len(SetupMessages) + 2 * k - 1]

\* C5. While main questions remain, askNextQuestion sends the main question
\* at index decisionTreeStep and no branch question; this is what was sent
\* for the last utterance handled.
C5_MainBeforeBranch ==
    \A c \in Calls :
        LET s == streamSid[c] IN
        (s \in DOMAIN conversationStates
           /\ conversationStates[s].decisionTreeStep < Len(mainFlow)) =>
            LET st == conversationStates[s]
                q == mainFlow[st.decisionTreeStep + 1].question
            IN /\ askNextQuestion(st) = << ItemCreate(<<q>>), ResponseCreate >>
               /\ q \notin BranchQuestions
               /\ handled[c] > 0 =>
                     /\ Len(openaiOut[c]) = Len(SetupMessages) + 2 * handled[c]
                     /\ ItemOf(c, handled[c]) = ItemCreate(<<q>>)
                     /\ Last(openaiOut[c]) = ResponseCreate

\* the policy id was answered and the claim-type question was sent
C5_Witness ==
    /\ conversationStates["MZ1"].decisionTreeStep = 1
    /\ handled[TheCall] = 1
    /\ ItemOf(TheCall, 1) = ItemCreate(<< mainFlow[2].question >>)

IsSummary(m) ==
    /\ m.type = "conversation.item.create"
    /\ m.text[1] = SummaryHeader

Names(flow) == [i \in 1..Len(flow) |-> flow[i].name]

Scenario == << "POL123", "car accident", "no", "minor", "no injuries", "done" >>
ScenarioKeys == << "policyId", "claimType", "alcoholInvolvement", "accidentSeverity",
                   "accidentInjuries", "accidentComplete" >>

\* C6. With a recognised branch b, the summary is sent for utterance number
\* Len(mainFlow) + Len(b) and for none before it, and the keys recorded are
\* then the main keys followed by b's keys; the six scenario answers end with
\* the six scenario keys, branch car and the summary.
C6_CompleteAfterAllAnswers ==
    \A c \in Calls :
        LET s == streamSid[c] IN
        s \in DOMAIN conversationStates =>
            LET st == conversationStates[s]
                n == Len(mainFlow) + Len(st.subFlow.flowArray)
            IN /\ st.subFlow # NoSubFlow =>
                    /\ \A k \in 1..handled[c] :
                          /\ k < n => ~IsSummary(ItemOf(c, k))
                          /\ k = n => IsSummary(ItemOf(c, k))
                    /\ handled[c] >= n =>
                          Keys(st.conversationData)
                              = Names(mainFlow) \o Names(st.subFlow.flowArray)
               /\ (handled[c] = Len(Scenario) /\ Vals(st.conversationData) = Scenario) =>
                    /\ Keys(st.conversationData) = ScenarioKeys
                    /\ st.subFlow.name = "carAccidentFlow"
                    /\ IsSummary(ItemOf(c, Len(Scenario)))

\* the scenario has been played and ended with the summary
C6_Witness ==
    /\ handled[TheCall] = 6
    /\ Vals(conversationStates["MZ1"].conversationData) = Scenario
    /\ Keys(conversationStates["MZ1"].conversationData) = ScenarioKeys
    /\ IsSummary(ItemOf(TheCall, 6))
    /\ \A k \in 1..5 : ~IsSummary(ItemOf(TheCall, k))

ExpectedFlowName(text) ==
    CASE text \in {"car accident", "Car theft", "vandalised CAR", "scary"}
             -> "carAccidentFlow"
      [] text \in {"THEFT by vandal", "Theft"} -> "theftFlow"
      [] text \in {"Vandals, DoNe", "VANDALISM"} -> "vandalismFlow"
      [] text \in {"POL123", "done", "the ft", "c a r",
                   "let's talk about weather", ""} -> None

FlowNamed(name) ==
    CASE name = "carAccidentFlow" -> carAccidentFlow
      [] name = "theftFlow" -> theftFlow
      [] name = "vandalismFlow" -> vandalismFlow
      [] name = None -> <<>>

ValueOf(d, k) == d[CHOOSE i \in 1..Len(d) : d[i].key = k].val

\* C7. Once the claimType answer is recorded, subFlow is the flow its text
\* selects: car if it contains "car" in any case, else theft if it contains
\* "theft", else vandalism if it contains "vandal", else none.
C7_ClassificationPriority ==
    \A s \in DOMAIN conversationStates :
        LET st == conversationStates[s] IN
        HasKey(st.conversationData, "claimType") =>
            LET expected == ExpectedFlowName(ValueOf(st.conversationData, "claimType"))
            IN /\ st.subFlow.name = expected
               /\ st.subFlow.flowArray = FlowNamed(expected)

\* "Car theft" was answered to the claim-type question and selected car
C7_Witness ==
    /\ HasKey(conversationStates["MZ1"].conversationData, "claimType")
    /\ ValueOf(conversationStates["MZ1"].conversationData, "claimType") = "Car theft"
    /\ conversationStates["MZ1"].subFlow.name = "carAccidentFlow"

NoDuplicates(q) == \A i, j \in 1..Len(q) : q[i] = q[j] => i = j

\* the text is the header, one "- key: val\n" per item of d in order, closing
Renders(text, d) ==
    /\ Len(text) = 2 + 5 * Len(d)
    /\ text[1] = SummaryHeader
    /\ text[Len(text)] = SummaryClosing
    /\ \A i \in 1..Len(d) :
          SubSeq(text, 5 * i - 3, 5 * i + 1) = << "- ", d[i].key, ": ", d[i].val, "\n" >>

\* C8. Every summary sent lists each recorded key once, in the order of
\* recording, then the closing sentence; a step that only finalizes (a
\* 'done' after the questions are exhausted) leaves conversationStates as
\* it was.
C8_SummaryInOrder ==
    /\ [](\A c \in Calls :
            LET s == streamSid[c] IN
            s \in DOMAIN conversationStates =>
                /\ NoDuplicates(Keys(conversationStates[s].conversationData))
                /\ \A k \in 1..Len(openaiOut[c]) :
                      IsSummary(openaiOut[c][k]) =>
                          Renders(openaiOut[c][k].text,
                                  conversationStates[s].conversationData))
    /\ [][\A c \in Calls :
            (/\ Len(openaiOut'[c]) = Len(openaiOut[c]) + 2
             /\ streamSid[c] \in DOMAIN conversationStates
             /\ IsSummary(openaiOut'[c][Len(openaiOut[c]) + 1])
             /\ Len(conversationStates[streamSid[c]].conversationData)
                  = Len(conversationStates'[streamSid[c]].conversationData))
            => conversationStates' = conversationStates]_vars

\* the vandalism branch was completed and its five answers summarised
C8_Witness ==
    /\ Len(conversationStates["MZ1"].conversationData) = 5
    /\ handled[TheCall] = 5
    /\ IsSummary(ItemOf(TheCall, 5))
    /\ Len(ItemOf(TheCall, 5).text) = 27

DoneTexts == {"done", "Vandals, DoNe"}

\* C9. With the main sequence exhausted and no branch, an utterance without
\* "done" is answered by the 'say done' prompt, one with "done" in any letter
\* case by the summary, and neither changes conversationStates.
C9_NoBranchFreeText ==
    [][\A c \in Calls : \A u \in Utterances :
          (/\ UserUtterance(c, u)
           /\ streamSid[c] \in DOMAIN conversationStates
           /\ conversationStates[streamSid[c]].decisionTreeStep = Len(mainFlow)
           /\ conversationStates[streamSid[c]].subFlow = NoSubFlow)
          => /\ conversationStates' = conversationStates
             /\ Len(openaiOut'[c]) = Len(openaiOut[c]) + 2
             /\ Last(openaiOut'[c]) = ResponseCreate
             /\ IF u \in DoneTexts
                THEN IsSummary(openaiOut'[c][Len(openaiOut[c]) + 1])
                ELSE openaiOut'[c][Len(openaiOut[c]) + 1] = ItemCreate(<< NotedMsg >>)]_vars

\* no branch was selected, the third utterance got the prompt, the fourth
\* the summary of the two answers
C9_Witness ==
    /\ conversationStates["MZ1"].subFlow = NoSubFlow
    /\ conversationStates["MZ1"].decisionTreeStep = 2
    /\ handled[TheCall] = 4
    /\ ItemOf(TheCall, 3) = ItemCreate(<< NotedMsg >>)
    /\ IsSummary(ItemOf(TheCall, 4))
    /\ Len(conversationStates["MZ1"].conversationData) = 2

\* C10. A speech_started event handled while responseStartTimestampTwilio is
\* unset sends nothing on either connection and changes no call state.
C10_SpeechStartedUnsetNoOp ==
    [][\A c \in Calls :
          (/\ openaiRead'[c] = openaiRead[c] + 1
           /\ lastEvent'[c].type = SpeechStarted
           /\ responseStartTimestampTwilio[c] = Unset)
          => UNCHANGED <<openaiOut, twilioOut, latestMediaTimestamp, markQueue,
                         responseStartTimestampTwilio, lastAssistantItem, streamSid,
                         conversationStates>>]_vars

\* the handler ran with the timestamp unset in a call that has a stream id,
\* an utterance id and a pending mark
C10_Witness ==
    /\ lastEvent[TheCall].type = SpeechStarted
    /\ openaiRead[TheCall] = 1
    /\ responseStartTimestampTwilio[TheCall] = Unset
    /\ streamSid[TheCall] # None
    /\ lastAssistantItem[TheCall] # None
    /\ latestMediaTimestamp[TheCall] > 0
    /\ markQueue[TheCall] # <<>>
    /\ twilioOut[TheCall] = <<>>
    /\ openaiOut[TheCall] = SetupMessages

\* a step of call c that handles a speech_started event
SpeechStartedStep(c) ==
    /\ openaiRead'[c] = openaiRead[c] + 1
    /\ lastEvent'[c].type = SpeechStarted

\* the truncate the handler is to send in the state it is called in
ExpectedTruncate(c) ==
    [type |-> "conversation.item.truncate", item_id |-> lastAssistantItem[c],
     content_index |-> 0,
     audio_end_ms |-> latestMediaTimestamp[c] - responseStartTimestampTwilio[c][1]]

\* C11 as stated: with responseStartTimestampTwilio set and an utterance id
\* recorded, a speech_started event sends one truncate naming the id with
\* content_index 0 and audio_end_ms = latest - start, and a clear to the
\* telephony leg.
C11_TruncateThenClear ==
    [][\A c \in Calls :
          (/\ SpeechStartedStep(c)
           /\ responseStartTimestampTwilio[c] # Unset
           /\ lastAssistantItem[c] # None)
          => /\ openaiOut'[c] = Append(openaiOut[c], ExpectedTruncate(c))
             /\ twilioOut'[c] = Append(twilioOut[c],
                                  [event |-> "clear", streamSid |-> streamSid[c]])]_vars

\* C11 amended: the same, the clear being sent when the call's stream id is
\* set and not sent while it is None; latest 5000 and start 4200 give 800.
C11_TruncateThenClearIfSid ==
    [][\A c \in Calls :
          (/\ SpeechStartedStep(c)
           /\ responseStartTimestampTwilio[c] # Unset
           /\ lastAssistantItem[c] # None)
          => /\ openaiOut'[c] = Append(openaiOut[c], ExpectedTruncate(c))
             /\ (latestMediaTimestamp[c] = 5000
                   /\ responseStartTimestampTwilio[c] = <<4200>>)
                  => Last(openaiOut'[c]).audio_end_ms = 800
             /\ twilioOut'[c] =
                  IF streamSid[c] # None
                  THEN Append(twilioOut[c],
                              [event |-> "clear", streamSid |-> streamSid[c]])
                  ELSE twilioOut[c]]_vars

\* the handler ran with latest 5000, start 4200, an utterance id and a stream
\* id, and sent the truncate at 800 ms and the clear
C11_Witness ==
    /\ lastEvent[TheCall].type = SpeechStarted
    /\ openaiRead[TheCall] = 1
    /\ latestMediaTimestamp[TheCall] = 5000
    /\ responseStartTimestampTwilio[TheCall] = <<4200>>
    /\ Len(openaiOut[TheCall]) = Len(SetupMessages) + 1
    /\ Last(openaiOut[TheCall]) =
          [type |-> "conversation.item.truncate", item_id |-> "item_1",
           content_index |-> 0, audio_end_ms |-> 800]
    /\ twilioOut[TheCall] = << [event |-> "clear", streamSid |-> "MZ1"] >>

\* C12. A speech_started event handled while responseStartTimestampTwilio is
\* set leaves it unset and the mark queue empty.
C12_SpeechStartedResets ==
    [][\A c \in Calls :
          (SpeechStartedStep(c) /\ responseStartTimestampTwilio[c] # Unset)
          => /\ responseStartTimestampTwilio'[c] = Unset
             /\ markQueue'[c] = <<>>]_vars

\* C13. The audio_end_ms of every truncate sent to the speech service is
\* not negative.
C13_OffsetNonNegative ==
    \A c \in Calls : \A k \in 1..Len(openaiOut[c]) :
        openaiOut[c][k].type = "conversation.item.truncate"
            => openaiOut[c][k].audio_end_ms >= 0

\* C14. A response.audio.delta handled while responseStartTimestampTwilio is
\* unset sets it to latestMediaTimestamp, one handled while it is set leaves
\* it, and the delta is forwarded to the telephony leg as a media frame.
C14_DeltaStartsResponse ==
    [][\A c \in Calls :
          (/\ openaiRead'[c] = openaiRead[c] + 1
           /\ lastEvent'[c].type = "response.audio.delta")
          => /\ responseStartTimestampTwilio'[c] =
                  IF responseStartTimestampTwilio[c] = Unset
                  THEN << latestMediaTimestamp[c] >>
                  ELSE responseStartTimestampTwilio[c]
             /\ \E k \in (Len(twilioOut[c]) + 1)..Len(twilioOut'[c]) :
                   /\ twilioOut'[c][k].event = "media"
                   /\ twilioOut'[c][k].payload = lastEvent'[c].text]_vars

\* a step of call c that handles a response.audio.delta event
AudioDeltaStep(c) ==
    /\ openaiRead'[c] = openaiRead[c] + 1
    /\ lastEvent'[c].type = "response.audio.delta"

\* a step of call c that handles a telephony mark event
MarkAckStep(c) ==
    /\ twilioRead'[c] = twilioRead[c] + 1
    /\ lastEvent'[c].type = "mark"

\* the number of mark events among the entries of q after the first n
MarksAfter(q, n) ==
    Cardinality({k \in (n + 1)..Len(q) : q[k].event = "mark"})

\* what a mark acknowledgement does to the queue
AckedQueue(q) == IF q # <<>> THEN Tail(q) ELSE q

\* C20 as stated: every audio delta sends one mark and appends one entry to
\* the mark queue; every telephony mark removes the oldest entry of a
\* non-empty queue and leaves an empty one.
C20_MarkPerDelta ==
    [][\A c \in Calls :
          /\ AudioDeltaStep(c)
               => /\ MarksAfter(twilioOut'[c], Len(twilioOut[c])) = 1
                  /\ markQueue'[c] = Append(markQueue[c], "responsePart")
          /\ MarkAckStep(c) => markQueue'[c] = AckedQueue(markQueue[c])]_vars

\* C20 amended: an audio delta handled while the stream id is set sends one
\* mark, last, and appends one entry; one handled while the stream id is None
\* sends no mark and leaves the queue; a telephony mark removes the oldest
\* entry of a non-empty queue and leaves an empty one.
C20_MarkPerDeltaIfSid ==
    [][\A c \in Calls :
          /\ (AudioDeltaStep(c) /\ streamSid[c] # None)
               => /\ MarksAfter(twilioOut'[c], Len(twilioOut[c])) = 1
                  /\ Last(twilioOut'[c]).event = "mark"
                  /\ markQueue'[c] = Append(markQueue[c], "responsePart")
          /\ (AudioDeltaStep(c) /\ streamSid[c] = None)
               => /\ MarksAfter(twilioOut'[c], Len(twilioOut[c])) = 0
                  /\ markQueue'[c] = markQueue[c]
          /\ MarkAckStep(c) => markQueue'[c] = AckedQueue(markQueue[c])]_vars

\* two deltas were marked and queued, and one mark was acknowledged
C20_Witness ==
    /\ streamSid[TheCall] # None
    /\ openaiRead[TheCall] = 2
    /\ twilioRead[TheCall] = 1
    /\ lastEvent[TheCall].type = "mark"
    /\ MarksAfter(twilioOut[TheCall], 0) = 2
    /\ markQueue[TheCall] = << "responsePart" >>

\* the state of call c has a branch whose questions are all answered
BranchExhausted(c) ==
    /\ streamSid[c] \in DOMAIN conversationStates
    /\ conversationStates[streamSid[c]].decisionTreeStep = Len(mainFlow)
    /\ conversationStates[streamSid[c]].subFlow # NoSubFlow
    /\ conversationStates[streamSid[c]].subFlowStep =
          Len(conversationStates[streamSid[c]].subFlow.flowArray)

\* C19 as stated: with the recognized branch exhausted, every utterance is
\* answered by the summary, whatever its text.
C19_ExhaustedAlwaysComplete ==
    [][\A c \in Calls : \A u \in Utterances :
          (UserUtterance(c, u) /\ BranchExhausted(c))
          => IsSummary(openaiOut'[c][Len(openaiOut[c]) + 1])]_vars

\* C19 amended: with the recognized branch exhausted, an utterance with
\* "done" in any letter case is answered by the summary and any other by the
\* 'say done to finalize' prompt; neither changes conversationStates.
C19_ExhaustedDoneCompletes ==
    [][\A c \in Calls : \A u \in Utterances :
          (UserUtterance(c, u) /\ BranchExhausted(c))
          => /\ conversationStates' = conversationStates
             /\ Len(openaiOut'[c]) = Len(openaiOut[c]) + 2
             /\ Last(openaiOut'[c]) = ResponseCreate
             /\ IF u \in DoneTexts
                THEN IsSummary(openaiOut'[c][Len(openaiOut[c]) + 1])
                ELSE openaiOut'[c][Len(openaiOut[c]) + 1]
                        = ItemCreate(<< MostDetailsMsg >>)]_vars

\* the vandalism branch was answered and the summary sent with its last
\* answer; the utterance after that got the prompt, not a second summary
C19_Witness ==
    /\ conversationStates["MZ1"].subFlow.name = "vandalismFlow"
    /\ conversationStates["MZ1"].subFlowStep = 3
    /\ handled[TheCall] = 6
    /\ IsSummary(ItemOf(TheCall, 5))
    /\ ItemOf(TheCall, 6) = ItemCreate(<< MostDetailsMsg >>)
    /\ Len(conversationStates["MZ1"].conversationData) = 5

\* a read loop of call c has ended and the endpoint has not yet torn down
LoopEnded(c) ==
    /\ pc[c] = "active"
    /\ producer[c] # "running" \/ consumer[c] # "running"

\* call c is closed: no task runs, the speech connection is closed and
\* conversationStates has no entry for the call's stream id
ClosedClean(c) ==
    /\ pc[c] = "closed"
    /\ producer[c] # "running" /\ consumer[c] # "running"
    /\ ~openaiOpen[c]
    /\ streamSid[c] \notin DOMAIN conversationStates

\* C16. Once a read loop of a call has ended (stop, disconnect of either peer
\* or failure) the call gets closed; a closed call has no running loop, a
\* closed speech connection and no conversationStates entry for its stream
\* id; and a closed call stays closed, with nothing of it changing again.
C16_TeardownOnLoopEnd ==
    /\ \A c \in Calls : LoopEnded(c) ~> pc[c] = "closed"
    /\ [](\A c \in Calls : pc[c] = "closed" => ClosedClean(c))
    /\ [][\A c \in Calls : pc[c] = "closed" => UNCHANGED vars]_vars

\* the telephony loop ended on `stop` with the speech loop still running; the
\* call is closed, the speech loop cancelled and the registered state dropped
C16_Witness ==
    /\ ClosedClean(TheCall)
    /\ streamSid[TheCall] = "MZ1"
    /\ lastEvent[TheCall].type = "stop"
    /\ producer[TheCall] = "returned"
    /\ consumer[TheCall] = "cancelled"
    /\ handled[TheCall] > 0

\* a step of call c that reads a message that is not valid JSON
MalformedStep(c) ==
    /\ lastEvent'[c].type = "malformed"
    /\ twilioRead'[c] = twilioRead[c] + 1 \/ openaiRead'[c] = openaiRead[c] + 1

\* C17. Reading a message that is not valid JSON, on either connection,
\* changes no call state: both loops keep running, the call stays as it is
\* and nothing is sent or recorded.
C17_MalformedSkipped ==
    [][\A c \in Calls :
          MalformedStep(c)
          => /\ producer'[c] = producer[c]
             /\ consumer'[c] = consumer[c]
             /\ UNCHANGED <<conversationStates, transcript, pc, streamSid,
                            latestMediaTimestamp, lastAssistantItem, markQueue,
                            responseStartTimestampTwilio, openaiOut, openaiOpen,
                            twilioOut, handled>>]_vars

\* the positions of the greeting among the messages sent to the speech
\* service of call c
GreetingsSent(c) ==
    {k \in 1..Len(openaiOut[c]) : openaiOut[c][k] = ItemCreate(<< Greeting >>)}

\* C18. Nothing is sent to the speech service nor read by either loop before
\* the connection is made; from then on the messages sent begin with
\* session.update, the greeting item and its response.create, and the
\* greeting occurs once.
C18_SetupThenGreetingOnce ==
    \A c \in Calls :
        IF pc[c] \in {"active", "closed"}
        THEN /\ Len(openaiOut[c]) >= 3
             /\ openaiOut[c][1].type = "session.update"
             /\ openaiOut[c][2] = [type |-> "conversation.item.create",
                                   role |-> "assistant", text |-> << Greeting >>]
             /\ openaiOut[c][3] = [type |-> "response.create"]
             /\ Cardinality(GreetingsSent(c)) = 1
        ELSE /\ openaiOut[c] = <<>>
             /\ twilioRead[c] = 0 /\ openaiRead[c] = 0
             /\ producer[c] = "notstarted" /\ consumer[c] = "notstarted"

\* the call was connected and greeted, and both loops have since read events
C18_Witness ==
    /\ pc[TheCall] = "active"
    /\ twilioRead[TheCall] > 0
    /\ openaiRead[TheCall] > 0
    /\ GreetingsSent(TheCall) = {2}

\* a step of call c: one of its loops reads an event, or it is torn down
StepOfCall(c) ==
    \/ twilioRead'[c] # twilioRead[c]
    \/ openaiRead'[c] # openaiRead[c]
    \/ pc'[c] # pc[c]

\* the step leaves the conversation state, the mark queue and the timing
\* context of call c as they are
CallUntouched(c) ==
    /\ (streamSid[c] \in DOMAIN conversationStates)
          <=> (streamSid[c] \in DOMAIN conversationStates')
    /\ streamSid[c] \in DOMAIN conversationStates
          => conversationStates'[streamSid[c]] = conversationStates[streamSid[c]]
    /\ markQueue'[c] = markQueue[c]
    /\ latestMediaTimestamp'[c] = latestMediaTimestamp[c]
    /\ responseStartTimestampTwilio'[c] = responseStartTimestampTwilio[c]
    /\ lastAssistantItem'[c] = lastAssistantItem[c]
    /\ streamSid'[c] = streamSid[c]

\* C15. With two calls of distinct stream ids in progress, a step of one call
\* (user utterance, start, mark, audio delta, teardown) leaves the other
\* call's conversation state, mark queue and timing context unchanged.
C15_CallsIsolated ==
    [][\A c1 \in TwoCalls : \A c2 \in TwoCalls \ {c1} :
          (streamSid[c1] # streamSid[c2] /\ StepOfCall(c1)) => CallUntouched(c2)]_vars

\* call1 answered a question, queued a mark and was torn down, its state
\* dropped, while call2, with progress of its own, is still registered
C15_Witness ==
    /\ pc["call1"] = "closed"
    /\ handled["call1"] > 0
    /\ "MZ1" \notin DOMAIN conversationStates
    /\ pc["call2"] = "active"
    /\ "MZ2" \in DOMAIN conversationStates
    /\ conversationStates["MZ2"].decisionTreeStep = 1
    /\ markQueue["call2"] = << "responsePart" >>

C22_BranchStepAfterMain ==
    /\ [](\A sid \in DOMAIN conversationStates :
             conversationStates[sid].subFlowStep > 0
                => /\ conversationStates[sid].decisionTreeStep = Len(mainFlow)
                   /\ conversationStates[sid].subFlow # NoSubFlow)
    /\ [][\A sid \in DOMAIN conversationStates :
             (sid \in DOMAIN conversationStates'
              /\ conversationStates'[sid].subFlowStep
                    # conversationStates[sid].subFlowStep)
             => /\ conversationStates[sid].decisionTreeStep = Len(mainFlow)
                /\ conversationStates[sid].subFlow # NoSubFlow
                /\ conversationStates'[sid].subFlowStep
                      = conversationStates[sid].subFlowStep + 1]_vars

\* two main answers selected the theft branch and two of its questions
\* have been answered
C22_Witness ==
    /\ conversationStates["MZ1"].decisionTreeStep = Len(mainFlow)
    /\ conversationStates["MZ1"].subFlow.name = "theftFlow"
    /\ conversationStates["MZ1"].subFlowStep = 2
    /\ handled[TheCall] = 4

\* the flowArray of the branch of a state, empty when none is selected
SelectedFlow(state) == state.subFlow.flowArray

\* the keys conversationData is to have, in order
ExpectedKeys(state) ==
    SubSeq(Names(mainFlow), 1, state.decisionTreeStep)
       \o SubSeq(Names(SelectedFlow(state)), 1, state.subFlowStep)

\* d is an initial part of e
IsPrefix(d, e) == Len(d) <= Len(e) /\ SubSeq(e, 1, Len(d)) = d

\* C25. In every conversation state both counters are within their
\* sequences and the keys of conversationData are the names of the first
\* decisionTreeStep main questions followed by those of the first
\* subFlowStep branch questions; no call of handleUserResponse decreases a
\* counter or changes an answer already recorded.
C25_CountersAndKeys ==
    /\ [](\A sid \in DOMAIN conversationStates :
             LET state == conversationStates[sid] IN
             /\ state.decisionTreeStep \in 0..Len(mainFlow)
             /\ state.subFlowStep \in 0..Len(SelectedFlow(state))
             /\ Keys(state.conversationData) = ExpectedKeys(state)
             /\ Len(state.conversationData)
                   = state.decisionTreeStep + state.subFlowStep)
    /\ [][\A sid \in DOMAIN conversationStates :
             sid \in DOMAIN conversationStates'
             => LET old == conversationStates[sid]
                    new == conversationStates'[sid]
                IN /\ new.decisionTreeStep >= old.decisionTreeStep
                   /\ new.subFlowStep >= old.subFlowStep
                   /\ IsPrefix(old.conversationData, new.conversationData)]_vars

\* all six answers of a car accident claim are recorded under their names,
\* both counters at the end of their sequences
C25_Witness ==
    /\ conversationStates["MZ1"].decisionTreeStep = 2
    /\ conversationStates["MZ1"].subFlow.name = "carAccidentFlow"
    /\ conversationStates["MZ1"].subFlowStep = 4
    /\ Keys(conversationStates["MZ1"].conversationData)
          = << "policyId", "claimType", "alcoholInvolvement", "accidentSeverity",
               "accidentInjuries", "accidentComplete" >>
    /\ handled[TheCall] = 6

\* a step of call c that reads an event of an unknown type, or a decodable
\* message without a type
UnknownStep(c) ==
    /\ lastEvent'[c].type \in {"other", "notype"}
    /\ twilioRead'[c] = twilioRead[c] + 1 \/ openaiRead'[c] = openaiRead[c] + 1

\* C23. Reading an event of an unknown type, or a decodable message without
\* an event or type field, on either connection sends nothing, changes no
\* call state and leaves both loops running.
C23_UnknownIgnored ==
    [][\A c \in Calls :
          UnknownStep(c)
          => /\ producer'[c] = producer[c]
             /\ consumer'[c] = consumer[c]
             /\ UNCHANGED <<conversationStates, transcript, pc, streamSid,
                            latestMediaTimestamp, lastAssistantItem, markQueue,
                            responseStartTimestampTwilio, openaiOut, openaiOpen,
                            twilioOut, handled>>]_vars

\* a step of call c that handles the telephony stop event
StopStep(c) ==
    /\ twilioRead'[c] = twilioRead[c] + 1
    /\ lastEvent'[c].type = "stop"

\* the positions of the call-end line of stream id sid in the transcript t
CallEndLines(t, sid) ==
    {k \in 1..Len(t) : t[k] = [role |-> "--- Call ended", text |-> sid]}

\* C24. A stop event handled by a call whose stream id is set appends the
\* call-end line of that id to the transcript and ends the telephony loop;
\* the line is in the transcript at most once, no other step adds or removes
\* one, teardown included, and a telephony loop that has ended reads no
\* further event.
C24_StopWritesCallEnd ==
    /\ [][\A c \in Calls :
             (StopStep(c) /\ streamSid[c] # None)
             => /\ transcript' = Append(transcript,
                                   [role |-> "--- Call ended", text |-> streamSid[c]])
                /\ producer'[c] = "returned"]_vars
    /\ [][\A c \in Calls :
             ~StopStep(c)
             => \A sid \in Sids :
                   /\ CallEndLines(transcript', sid) = CallEndLines(transcript, sid)
                   /\ \A k \in CallEndLines(transcript, sid) :
                         transcript'[k] = transcript[k]]_vars
    /\ [](\A sid \in Sids : Cardinality(CallEndLines(transcript, sid)) <= 1)
    /\ [][\A c \in Calls :
             producer[c] # "running" => twilioRead'[c] = twilioRead[c]]_vars

\* the call with stream id MZ1 got stop and wrote its call-end line; the
\* speech loop then logged an utterance and was cancelled by the teardown,
\* and the line is still there
C24_Witness ==
    /\ pc[TheCall] = "closed"
    /\ streamSid[TheCall] = "MZ1"
    /\ producer[TheCall] = "returned"
    /\ consumer[TheCall] = "cancelled"
    /\ CallEndLines(transcript, "MZ1") = {1}
    /\ Len(transcript) = 2

====
